---------------------------- MODULE Spec2Model ----------------------------
(***************************************************************************)
(* Connected-component labelling of a 3D voxel volume on a union-find      *)
(* forest (Source/projects/ImageProcessing/connectedComponents.h).         *)
(*                                                                         *)
(* Three specifications share the forest operators:                        *)
(*   SpecSet        a caller of Set<U> issuing arbitrary find()/unite()    *)
(*                  calls on a small array of zero-initialised nodes;      *)
(*   SpecSaturated  the same calls on roots whose ranks are drawn at and   *)
(*                  next to the maximum of RANK_TYPE, the only forests on  *)
(*                  which unite() takes its overflow branch;               *)
(*   Spec           one call of findConnectedComponents3d, voxel by voxel. *)
(*                                                                         *)
(* A node is its index in the array `components`; NULL is the null parent. *)
(* RANK_TYPE is the 16-bit unsigned short of the source everywhere; the    *)
(* label type U is instantiated at small widths.                           *)
(***************************************************************************)
EXTENDS Integers, Sequences, FiniteSets

VARIABLES
  \* ---- the forest: one Set<U> per node
  parent,          \* Set::parent_  (NULL = root)
  rank,            \* Set::rank_
  hasLabel,        \* Set::hasLabel_
  label,           \* Set::label_
  rankBits,        \* width in bits of RANK_TYPE
  \* ---- the caller of Set<U> (SpecSet)
  call,            \* the last call made on the forest, its outcome and the
                   \* nodes whose parent link it changed
  overflowed,      \* some unite() has thrown so far
  comp,            \* reference partition: least node related to each node by
                   \* the closure of the pairs passed to successful unite()s
  \* ---- one call of findConnectedComponents3d (Spec)
  width, height, depth,
  inputNull, outputNull,
  input, inputLeap, inputStride, backgroundColor,
  output, outputLeap, outputStride, backgroundLabel,
  labelBits,       \* width of the label type U of this instantiation
  pc,              \* position in the call
  pos,             \* linear index of the next voxel of the current pass
  statistics,      \* the std::vector<ComponentStatistics> being built
  error            \* what the call reported, "" if nothing

forestVars == <<parent, rank, hasLabel, label, rankBits>>
callerVars == <<call, overflowed, comp>>
labelerVars == <<width, height, depth, inputNull, outputNull, input, inputLeap,
                 inputStride, backgroundColor, output, outputLeap, outputStride,
                 backgroundLabel, labelBits, pc, pos, statistics, error>>
vars == <<forestVars, callerVars, labelerVars>>

---------------------------------------------------------------------------
(* Bounds of the model *)

\* nodes of the forest driven by SpecSet
NNodes == 4
\* roots of the forest that SpecSaturated hands to find() and unite()
NRoots == 3

\* largest width, height or depth of a labelled volume
MaxDim == 3
\* largest number of voxels of a labelled volume
MaxVoxels == 8
\* typedef unsigned short RANK_TYPE: its width in bits
RANK_BITS == 16

\* the null pointer of parent_
NULL == -1
\* Set::UNITIALIZED
UNITIALIZED == 0

\* std::numeric_limits<RANK_TYPE>::max()
RANK_MAX == 2^rankBits - 1

Max(a, b) == IF a >= b THEN a ELSE b
Min(S) == CHOOSE m \in S : \A n \in S : m <= n

---------------------------------------------------------------------------
(* Set<U> *)

\* Set::Set() and the zeroed memory of the labeller: rank 0, no parent,
\* no label.
ZeroParent(nodes) == [n \in nodes |-> NULL]
ZeroRank(nodes) == [n \in nodes |-> 0]
ZeroHasLabel(nodes) == [n \in nodes |-> FALSE]
ZeroLabel(nodes) == [n \in nodes |-> UNITIALIZED]

\* find() that returns the parent without walking on to the root.
find_oneHop(par, x) ==
  IF par[x] = NULL
    THEN [root |-> x, parent |-> par]
    ELSE [root |-> par[x], parent |-> par]

\* find() that hands back the parent it had before the walk.
RECURSIVE find_returnOld(_, _)
find_returnOld(par, x) ==
  IF par[x] = NULL
    THEN [root |-> x, parent |-> par]
    ELSE LET r == find_returnOld(par, par[x])
         IN  [root |-> par[x], parent |-> [r.parent EXCEPT ![x] = r.root]]

\* find() that repoints the node to its parent's parent without testing
\* whether the parent is the root.
find_skip(par, x) ==
  IF par[x] = NULL
    THEN [root |-> x, parent |-> par]
    ELSE [root |-> par[x], parent |-> [par EXCEPT ![x] = par[par[x]]]]

\* Set::find(): the root of x, and the parent links after the walk; each node
\* on the way is repointed to what the recursive call returned.
RECURSIVE find(_, _)
find(par, x) ==
  IF par[x] = NULL
    THEN [root |-> x, parent |-> par]
    ELSE LET r == find(par, par[x])
         IN  [root |-> r.root, parent |-> [r.parent EXCEPT ![x] = r.root]]

\* unite() without the test against the maximum: the rank wraps around.
unite_wrap(par, rnk, x, y) ==
  LET fx == find(par, x)
      fy == find(fx.parent, y)
      xRoot == fx.root
      yRoot == fy.root
      p == fy.parent
  IN  IF rnk[xRoot] > rnk[yRoot]
        THEN [parent |-> [p EXCEPT ![yRoot] = xRoot], rank |-> rnk, threw |-> FALSE]
      ELSE IF rnk[xRoot] < rnk[yRoot]
        THEN [parent |-> [p EXCEPT ![xRoot] = yRoot], rank |-> rnk, threw |-> FALSE]
      ELSE IF xRoot # yRoot
        THEN [parent |-> [p EXCEPT ![yRoot] = xRoot],
              rank |-> [rnk EXCEPT ![xRoot] = (rnk[xRoot] + 1) % 2^rankBits],
              threw |-> FALSE]
      ELSE [parent |-> p, rank |-> rnk, threw |-> FALSE]

\* unite() that links the argument y, not its root, under xRoot when the
\* ranks are equal.
unite_linkArg(par, rnk, x, y) ==
  LET fx == find(par, x)
      fy == find(fx.parent, y)
      xRoot == fx.root
      yRoot == fy.root
      p == fy.parent
  IN  IF rnk[xRoot] > rnk[yRoot]
        THEN [parent |-> [p EXCEPT ![yRoot] = xRoot], rank |-> rnk, threw |-> FALSE]
      ELSE IF rnk[xRoot] < rnk[yRoot]
        THEN [parent |-> [p EXCEPT ![xRoot] = yRoot], rank |-> rnk, threw |-> FALSE]
      ELSE IF xRoot # yRoot
        THEN IF rnk[xRoot] = RANK_MAX
               THEN [parent |-> [p EXCEPT ![y] = xRoot], rank |-> rnk,
                     threw |-> TRUE]
               ELSE [parent |-> [p EXCEPT ![y] = xRoot],
                     rank |-> [rnk EXCEPT ![xRoot] = (rnk[xRoot] + 1) % 2^rankBits],
                     threw |-> FALSE]
      ELSE [parent |-> p, rank |-> rnk, threw |-> FALSE]

\* unite() without the test that the two roots differ: a call on one set
\* links the root to itself and raises its rank.
unite_noSameTest(par, rnk, x, y) ==
  LET fx == find(par, x)
      fy == find(fx.parent, y)
      xRoot == fx.root
      yRoot == fy.root
      p == fy.parent
  IN  IF rnk[xRoot] > rnk[yRoot]
        THEN [parent |-> [p EXCEPT ![yRoot] = xRoot], rank |-> rnk, threw |-> FALSE]
      ELSE IF rnk[xRoot] < rnk[yRoot]
        THEN [parent |-> [p EXCEPT ![xRoot] = yRoot], rank |-> rnk, threw |-> FALSE]
      ELSE IF rnk[xRoot] = RANK_MAX
        THEN [parent |-> [p EXCEPT ![yRoot] = xRoot], rank |-> rnk, threw |-> TRUE]
      ELSE [parent |-> [p EXCEPT ![yRoot] = xRoot],
            rank |-> [rnk EXCEPT ![xRoot] = (rnk[xRoot] + 1) % 2^rankBits],
            threw |-> FALSE]

\* unite() that puts the root of higher rank under the root of lower rank.
unite_swapped(par, rnk, x, y) ==
  LET fx == find(par, x)
      fy == find(fx.parent, y)
      xRoot == fx.root
      yRoot == fy.root
      p == fy.parent
  IN  IF rnk[xRoot] > rnk[yRoot]
        THEN [parent |-> [p EXCEPT ![xRoot] = yRoot], rank |-> rnk, threw |-> FALSE]
      ELSE IF rnk[xRoot] < rnk[yRoot]
        THEN [parent |-> [p EXCEPT ![yRoot] = xRoot], rank |-> rnk, threw |-> FALSE]
      ELSE IF xRoot # yRoot
        THEN IF rnk[xRoot] = RANK_MAX
               THEN [parent |-> [p EXCEPT ![yRoot] = xRoot], rank |-> rnk,
                     threw |-> TRUE]
               ELSE [parent |-> [p EXCEPT ![yRoot] = xRoot],
                     rank |-> [rnk EXCEPT ![xRoot] = (rnk[xRoot] + 1) % 2^rankBits],
                     threw |-> FALSE]
      ELSE [parent |-> p, rank |-> rnk, threw |-> FALSE]

\* unite() that never raises a rank.
unite_noIncrement(par, rnk, x, y) ==
  LET fx == find(par, x)
      fy == find(fx.parent, y)
      xRoot == fx.root
      yRoot == fy.root
      p == fy.parent
  IN  IF rnk[xRoot] > rnk[yRoot]
        THEN [parent |-> [p EXCEPT ![yRoot] = xRoot], rank |-> rnk, threw |-> FALSE]
      ELSE IF rnk[xRoot] < rnk[yRoot]
        THEN [parent |-> [p EXCEPT ![xRoot] = yRoot], rank |-> rnk, threw |-> FALSE]
      ELSE IF xRoot # yRoot
        THEN [parent |-> [p EXCEPT ![yRoot] = xRoot], rank |-> rnk, threw |-> FALSE]
      ELSE [parent |-> p, rank |-> rnk, threw |-> FALSE]

\* unite() that raises the survivor's rank also when it was already the
\* higher one.
unite_alwaysIncrement(par, rnk, x, y) ==
  LET fx == find(par, x)
      fy == find(fx.parent, y)
      xRoot == fx.root
      yRoot == fy.root
      p == fy.parent
  IN  IF rnk[xRoot] > rnk[yRoot]
        THEN IF rnk[xRoot] = RANK_MAX
               THEN [parent |-> [p EXCEPT ![yRoot] = xRoot], rank |-> rnk,
                     threw |-> TRUE]
               ELSE [parent |-> [p EXCEPT ![yRoot] = xRoot],
                     rank |-> [rnk EXCEPT ![xRoot] = (rnk[xRoot] + 1) % 2^rankBits],
                     threw |-> FALSE]
      ELSE IF rnk[xRoot] < rnk[yRoot]
        THEN [parent |-> [p EXCEPT ![xRoot] = yRoot], rank |-> rnk, threw |-> FALSE]
      ELSE IF xRoot # yRoot
        THEN IF rnk[xRoot] = RANK_MAX
               THEN [parent |-> [p EXCEPT ![yRoot] = xRoot], rank |-> rnk,
                     threw |-> TRUE]
               ELSE [parent |-> [p EXCEPT ![yRoot] = xRoot],
                     rank |-> [rnk EXCEPT ![xRoot] = (rnk[xRoot] + 1) % 2^rankBits],
                     threw |-> FALSE]
      ELSE [parent |-> p, rank |-> rnk, threw |-> FALSE]

\* Set::unite(x, y): the forest after the call and whether it threw.  In the
\* equal-rank branch the link is made before the rank is tested, so a
\* throwing call leaves yRoot attached and the rank as it was.
unite(par, rnk, x, y) ==
  LET fx == find(par, x)
      fy == find(fx.parent, y)
      xRoot == fx.root
      yRoot == fy.root
      p == fy.parent
  IN  IF rnk[xRoot] > rnk[yRoot]
        THEN [parent |-> [p EXCEPT ![yRoot] = xRoot], rank |-> rnk, threw |-> FALSE]
      ELSE IF rnk[xRoot] < rnk[yRoot]
        THEN [parent |-> [p EXCEPT ![xRoot] = yRoot], rank |-> rnk, threw |-> FALSE]
      ELSE IF xRoot # yRoot
        THEN IF rnk[xRoot] = RANK_MAX
               THEN [parent |-> [p EXCEPT ![yRoot] = xRoot], rank |-> rnk,
                     threw |-> TRUE]
               ELSE [parent |-> [p EXCEPT ![yRoot] = xRoot],
                     rank |-> [rnk EXCEPT ![xRoot] = (rnk[xRoot] + 1) % 2^rankBits],
                     threw |-> FALSE]
      ELSE [parent |-> p, rank |-> rnk, threw |-> FALSE]

---------------------------------------------------------------------------
(* SpecSet: a caller of Set<U> *)

SetNodes == 0 .. NNodes - 1

NoCall ==
  [op |-> "none", x |-> 0, y |-> 0, root |-> 0, threw |-> FALSE, relinked |-> {}]

\* The nodes whose parent link differs between two forests.
Relinked(par, newpar) == {n \in DOMAIN par : newpar[n] # par[n]}

\* The labeller is not running under SpecSet.
LabelerIdle ==
  /\ width = 0 /\ height = 0 /\ depth = 0
  /\ inputNull = FALSE /\ outputNull = FALSE
  /\ input = <<>> /\ inputLeap = 0 /\ inputStride = 0 /\ backgroundColor = 0
  /\ output = <<>> /\ outputLeap = 0 /\ outputStride = 0 /\ backgroundLabel = 0
  /\ labelBits = 1
  /\ pc = "set" /\ pos = 0 /\ statistics = <<>> /\ error = ""

InitSet ==
  /\ parent = ZeroParent(SetNodes)
  /\ rank = ZeroRank(SetNodes)
  /\ hasLabel = ZeroHasLabel(SetNodes)
  /\ label = ZeroLabel(SetNodes)
  /\ rankBits = RANK_BITS
  /\ call = NoCall
  /\ overflowed = FALSE
  /\ comp = [n \in SetNodes |-> n]
  /\ LabelerIdle

\* x->find()
CallFind(x) ==
  LET r == find(parent, x)
  IN  /\ pc = "set"
      /\ parent' = r.parent
      /\ call' = [op |-> "find", x |-> x, y |-> x, root |-> r.root,
                  threw |-> FALSE, relinked |-> Relinked(parent, r.parent)]
      /\ UNCHANGED <<rank, hasLabel, label, rankBits, overflowed, comp, labelerVars>>

\* Set::unite(x, y); the caller catches the exception and goes on.
CallUnite(x, y) ==
  LET r == unite(parent, rank, x, y)
  IN  /\ pc = "set"
      /\ parent' = r.parent
      /\ rank' = r.rank
      /\ call' = [op |-> "unite", x |-> x, y |-> y, root |-> 0,
                  threw |-> r.threw, relinked |-> Relinked(parent, r.parent)]
      /\ overflowed' = (overflowed \/ r.threw)
      /\ comp' = IF r.threw
                   THEN comp
                   ELSE LET m == Min({comp[x], comp[y]})
                        IN  [n \in DOMAIN comp |->
                               IF comp[n] \in {comp[x], comp[y]} THEN m ELSE comp[n]]
      /\ UNCHANGED <<hasLabel, label, rankBits, labelerVars>>

NextSet ==
  \/ \E x \in SetNodes : CallFind(x)
  \/ \E x, y \in SetNodes : CallUnite(x, y)

SpecSet == InitSet /\ [][NextSet]_vars

---------------------------------------------------------------------------
(* SpecSaturated: find() and unite() on roots whose ranks are drawn *)

\* rank_ is private and grows by one at each join of two equal ranks (line
\* 58), so a root of rank r stands above at least 2^r nodes: from
\* zero-initialised nodes no run of feasible size brings a rank anywhere near
\* the maximum of RANK_TYPE, and the branch of lines 56-57 is never taken
\* under SpecSet.  SpecSaturated exercises unite() and find() as functions
\* of the forest they are given: NRoots roots are followed, each with a rank
\* drawn from RankSamples; the nodes below them are not followed.
RootNodes == 0 .. NRoots - 1

\* the lowest rank, the maximum of RANK_TYPE and the rank just below it
RankSamples == {0, 2^RANK_BITS - 2, 2^RANK_BITS - 1}

InitSaturated ==
  /\ parent = ZeroParent(RootNodes)
  /\ rank \in [RootNodes -> RankSamples]
  /\ hasLabel = ZeroHasLabel(RootNodes)
  /\ label = ZeroLabel(RootNodes)
  /\ rankBits = RANK_BITS
  /\ call = NoCall
  /\ overflowed = FALSE
  /\ comp = [n \in RootNodes |-> n]
  /\ LabelerIdle

NextSaturated ==
  \/ \E x \in RootNodes : CallFind(x)
  \/ \E x, y \in RootNodes : CallUnite(x, y)

SpecSaturated == InitSaturated /\ [][NextSaturated]_vars

---------------------------------------------------------------------------
(* findConnectedComponents3d: the call's arguments *)

\* values of the voxel type T: one is the background colour of the call
Values == {0, 5}
\* what the caller's buffers hold outside the volume's rows
PadValue == 5
\* The callers' conventions: a background colour and the padding, in
\* elements, of the input and of the output view (tightly packed buffers
\* with background 0; sub-region views with background 5).
Views == {[bg |-> 0, pad |-> <<0, 0>>], [bg |-> 5, pad |-> <<1, 2>>]}
\* widths in bits of the label types U the labeller is instantiated with
LabelWidths == {1, 2}

\* std::numeric_limits<U>::max() for a label type of `bits` bits
LabelMax(bits) == 2^bits - 1

Shapes ==
  {s \in (1 .. MaxDim) \X (1 .. MaxDim) \X (1 .. MaxDim) :
     s[1] * s[2] * s[3] <= MaxVoxels}

\* Face connectivity: back, left, up
\* (N_noUp: the loop over the neighbours stops before the last one)
N_noUp == 3 - 1
N == 3
du == <<0, -1, 0>>
dv == <<0, 0, -1>>
dw == <<-1, 0, 0>>

\* Position (w, v, u) of the voxel with linear index i of the scan order
\* (depth, then rows, then columns).
VoxelW(i) == i \div (width * height)
VoxelV(i) == (i \div width) % height
VoxelU(i) == i % width

\* the node index without the slice offset
NodeIndex_noSlice(w, v, u) == v * width + u
\* components[w*width*height + v*width + u]
NodeIndex(w, v, u) == w * width * height + v * width + u
\* inputBuffer + w*inputLeap + v*inputStride, element u of the row
InputAddr(w, v, u) == w * inputLeap + v * inputStride + u
\* the same addressing on the output buffer, with its own leap and stride
OutputAddr(w, v, u) == w * outputLeap + v * outputStride + u

InVolume(w, v, u) ==
  /\ u >= 0 /\ u < width
  /\ v >= 0 /\ v < height
  /\ w >= 0 /\ w < depth

Voxels == 0 .. width * height * depth - 1

\* The preconditions of the call (spec section 7).
Preconditions ==
  /\ ~inputNull /\ ~outputNull
  /\ width > 0 /\ height > 0 /\ depth > 0
  /\ inputStride >= width /\ inputLeap >= height * inputStride
  /\ outputStride >= width /\ outputLeap >= height * outputStride

\* A buffer of d slices of h rows of w elements, with the given leap and
\* stride, holding the volume vol (by linear index) and PadValue elsewhere.
Buffer(w, h, d, leap, stride, vol, pad) ==
  [a \in 0 .. Max(d * leap, (d - 1) * leap + (h - 1) * stride + w) - 1 |->
     LET ww == a \div leap
         vv == (a % leap) \div stride
         uu == (a % leap) % stride
     IN  IF vv < h /\ uu < w THEN vol[ww * w * h + vv * w + uu] ELSE pad]

\* A call that meets the preconditions: a volume of one of the shapes, in
\* one of the Views.  The output buffer holds the caller's
\* old data, here all bits set.
ValidCall ==
  \E s \in Shapes, view \in Views, bits \in LabelWidths :
    /\ width = s[1] /\ height = s[2] /\ depth = s[3]
    /\ inputNull = FALSE /\ outputNull = FALSE
    /\ inputStride = s[1] + view.pad[1]
    /\ inputLeap = s[2] * (s[1] + view.pad[1]) + view.pad[1]
    /\ outputStride = s[1] + view.pad[2]
    /\ outputLeap = s[2] * (s[1] + view.pad[2]) + view.pad[2]
    /\ labelBits = bits
    /\ backgroundColor = view.bg
    /\ backgroundLabel \in 0 .. LabelMax(bits)
    /\ \E vol \in [0 .. s[1] * s[2] * s[3] - 1 -> Values] :
         input = Buffer(s[1], s[2], s[3], inputLeap, inputStride, vol, PadValue)
    /\ output = [a \in 0 .. s[3] * outputLeap - 1 |-> LabelMax(bits)]

\* Calls that break a precondition: a null buffer, a dimension that is not
\* positive, rows that overlap because the stride is below the width.
InvalidCall ==
  /\ labelBits \in LabelWidths
  /\ backgroundColor = 0
  /\ backgroundLabel = 0
  /\ \/ /\ width = 1 /\ height = 1 /\ depth = 1
        /\ inputStride = 1 /\ inputLeap = 1 /\ outputStride = 1 /\ outputLeap = 1
        /\ \E in, on \in BOOLEAN :
             /\ in \/ on
             /\ inputNull = in /\ outputNull = on
             /\ \/ in /\ input = <<>>
                \/ ~in /\ \E x \in Values : input = [a \in {0} |-> x]
             /\ output = IF on THEN <<>> ELSE [a \in {0} |-> LabelMax(labelBits)]
     \/ /\ width \in {0, -1} /\ height = 1 /\ depth = 1
        /\ inputNull = FALSE /\ outputNull = FALSE
        /\ inputStride = 1 /\ inputLeap = 1 /\ outputStride = 1 /\ outputLeap = 1
        /\ input = [a \in {0} |-> PadValue]
        /\ output = [a \in {0} |-> LabelMax(labelBits)]
     \/ /\ width = 2 /\ height = 2 /\ depth = 1
        /\ inputNull = FALSE /\ outputNull = FALSE
        /\ inputStride = 1 /\ inputLeap = 3 /\ outputStride = 1 /\ outputLeap = 3
        /\ \E vol \in [0 .. 2 -> Values] : input = vol
        /\ output = [a \in 0 .. 2 |-> LabelMax(labelBits)]

CallerIdle == call = NoCall /\ overflowed = FALSE /\ comp = <<>>

Init ==
  /\ ValidCall \/ InvalidCall
  /\ pc = "entry" /\ pos = 0 /\ statistics = <<>> /\ error = ""
  /\ parent = <<>> /\ rank = <<>> /\ hasLabel = <<>> /\ label = <<>>
  /\ rankBits = RANK_BITS
  /\ CallerIdle


---------------------------------------------------------------------------
(* findConnectedComponents3d: the call, step by step *)

\* What the vector's constructor throws for a size it cannot allocate:
\* std::length_error where the size exceeds max_size(), std::bad_alloc where
\* the request goes through to the allocator; the standard library decides.
AllocationErrors == {"bad_alloc", "length_error"}

\* std::vector<unsigned char> components_(width*height*depth*sizeof(Set<U>), 0)
\* runs first, whatever the arguments.  A negative product converts to a
\* huge size_t and the vector's constructor throws; with a product of zero
\* &components_[0] indexes an empty vector (undefined: it traps or yields a
\* pointer that is never used, the loops having nothing to visit).
Allocate ==
  /\ pc = "entry"
  /\ LET n == width * height * depth
     IN  \/ /\ n > 0
            /\ parent' = ZeroParent(Voxels)
            /\ rank' = ZeroRank(Voxels)
            /\ hasLabel' = ZeroHasLabel(Voxels)
            /\ label' = ZeroLabel(Voxels)
            /\ rankBits' = rankBits
            /\ pc' = "scan"
            /\ error' = error
         \/ /\ n = 0
            /\ pc' \in {"done", "crashed"}
            /\ UNCHANGED <<forestVars, error>>
         \/ /\ n < 0
            /\ pc' = "failed"
            /\ error' \in AllocationErrors
            /\ UNCHANGED forestVars
  /\ UNCHANGED <<callerVars, width, height, depth, inputNull, outputNull, input,
                 inputLeap, inputStride, backgroundColor, output, outputLeap,
                 outputStride, backgroundLabel, labelBits, pos, statistics>>

\* What reading voxel i of the input can yield: the element, or anything at
\* all through a null inputBuffer (undefined behaviour, when it does not trap).
Deref(i) ==
  IF inputNull
    THEN Values
    ELSE {input[InputAddr(VoxelW(i), VoxelV(i), VoxelU(i))]}

\* background taken to be zero, whatever backgroundColor is
IsBackground_zero(val) == val = 0
\* A voxel of value val is background.
IsBackground(val) == val = backgroundColor

\* The unions of voxel i with its backward neighbours n .. N that are in the
\* volume and foreground; stops at the first unite() that throws.
RECURSIVE ScanNeighbours(_, _, _, _)
ScanNeighbours(par, rnk, i, n) ==
  IF n > N
    THEN [parent |-> par, rank |-> rnk, threw |-> FALSE]
    ELSE LET uu == VoxelU(i) + du[n]
             vv == VoxelV(i) + dv[n]
             ww == VoxelW(i) + dw[n]
         IN  IF InVolume(ww, vv, uu)
                  /\ ~IsBackground(input[InputAddr(ww, vv, uu)])
               THEN LET r == unite(par, rnk, i, NodeIndex(ww, vv, uu))
                    IN  IF r.threw THEN r
                        ELSE ScanNeighbours(r.parent, r.rank, i, n + 1)
               ELSE ScanNeighbours(par, rnk, i, n + 1)

\* One voxel of the forward scan.
ScanVoxel ==
  /\ pc = "scan"
  /\ \E val \in Deref(pos) :
       LET r == IF IsBackground(val)
                  THEN [parent |-> parent, rank |-> rank, threw |-> FALSE]
                  ELSE ScanNeighbours(parent, rank, pos, 1)
       IN  /\ parent' = r.parent
           /\ rank' = r.rank
           /\ IF r.threw
                THEN /\ pc' = "failed"
                     /\ error' = "Connected components graph overflow."
                     /\ pos' = pos
                ELSE /\ pc' = IF pos + 1 = width * height * depth
                                THEN "resolve" ELSE "scan"
                     /\ pos' = IF pos + 1 = width * height * depth
                                 THEN 0 ELSE pos + 1
                     /\ error' = error
  /\ UNCHANGED <<hasLabel, label, rankBits, callerVars, width, height, depth,
                 inputNull, outputNull, input, inputLeap, inputStride, backgroundColor,
                 output, outputLeap, outputStride, backgroundLabel, labelBits,
                 statistics>>

\* The label of the k-th record (k = 0, 1, ...), "the next unused label
\* value": the values after UNITIALIZED, which label_ holds in a node that
\* has no label, in ascending order.  backgroundLabel plays no part.
FreshLabel(k) == UNITIALIZED + 1 + k

\* The index in `statistics` (from 1) of the record that was given label l.
RecordIndex(l) == l - UNITIALIZED

\* What storing l at voxel i of the output leaves in the buffer; through a
\* null outputBuffer the store is undefined and, when it does not trap,
\* lands outside the buffer.
Store(i, l) ==
  IF outputNull
    THEN output
    ELSE [output EXCEPT ![OutputAddr(VoxelW(i), VoxelV(i), VoxelU(i))] = l]

\* no range test: the label is truncated to U
LabelFits_always(l) == TRUE
\* The label fits the label type U.
LabelFits(l) == l <= LabelMax(labelBits)

\* a record that starts at one and is then incremented
NewRecord_one(val) == [pixelCount_ |-> 1, inputLabel_ |-> val]
\* The record pushed for a component at its first voxel, of value val.
NewRecord(val) == [pixelCount_ |-> 0, inputLabel_ |-> val]

\* The statistics after counting one more voxel for the component labelled l.
CountVoxel(stats, l) ==
  [stats EXCEPT ![RecordIndex(l)].pixelCount_ = @ + 1]

\* One voxel of the resolution pass.
ResolveVoxel ==
  /\ pc = "resolve"
  /\ \E val \in Deref(pos) :
       LET f == find(parent, pos)
           fresh == FreshLabel(Len(statistics))
           last == (pos + 1 = width * height * depth)
       IN  IF IsBackground(val)
             THEN /\ output' = Store(pos, backgroundLabel)
                  /\ pos' = pos + 1
                  /\ pc' = IF last THEN "done" ELSE "resolve"
                  /\ UNCHANGED <<forestVars, statistics, error>>
           ELSE IF hasLabel[f.root]
             THEN /\ parent' = f.parent
                  /\ statistics' = CountVoxel(statistics, label[f.root])
                  /\ output' = Store(pos, label[f.root])
                  /\ pos' = pos + 1
                  /\ pc' = IF last THEN "done" ELSE "resolve"
                  /\ UNCHANGED <<rank, hasLabel, label, rankBits, error>>
           ELSE IF ~LabelFits(fresh)
             THEN /\ parent' = f.parent
                  /\ pc' = "failed"
                  /\ error' = "LabelRangeOverflow"
                  /\ UNCHANGED <<rank, hasLabel, label, rankBits, statistics,
                                 output, pos>>
           ELSE LET l == fresh % 2^labelBits
                IN  /\ parent' = f.parent
                    /\ hasLabel' = [hasLabel EXCEPT ![f.root] = TRUE]
                    /\ label' = [label EXCEPT ![f.root] = l]
                    /\ statistics' =
                         CountVoxel(Append(statistics, NewRecord(val)), fresh)
                    /\ output' = Store(pos, l)
                    /\ pos' = pos + 1
                    /\ pc' = IF last THEN "done" ELSE "resolve"
                    /\ UNCHANGED <<rank, rankBits, error>>
  /\ UNCHANGED <<callerVars, width, height, depth, inputNull, outputNull, input,
                 inputLeap, inputStride, backgroundColor, outputLeap,
                 outputStride, backgroundLabel, labelBits>>

\* A read or a write through a null buffer traps.
Trap ==
  /\ pc \in {"scan", "resolve"}
  /\ inputNull \/ (outputNull /\ pc = "resolve")
  /\ pc' = "crashed"
  /\ UNCHANGED <<forestVars, callerVars, width, height, depth, inputNull,
                 outputNull, input, inputLeap, inputStride, backgroundColor,
                 output, outputLeap, outputStride, backgroundLabel, labelBits,
                 pos, statistics, error>>

Next ==
  \/ Allocate
  \/ ScanVoxel
  \/ ResolveVoxel
  \/ Trap

Spec == Init /\ [][Next]_vars


---------------------------------------------------------------------------
(* Reference notions the properties are stated with *)

\* The root a node's parent links lead to, leaving the links alone.
RECURSIVE RootOf(_, _)
RootOf(par, x) == IF par[x] = NULL THEN x ELSE RootOf(par, par[x])

Abs(a) == IF a < 0 THEN -a ELSE a

\* The value of voxel i of the input volume and what the output holds for it.
InputAt(i) == input[InputAddr(VoxelW(i), VoxelV(i), VoxelU(i))]
OutputAt(i) == output[OutputAddr(VoxelW(i), VoxelV(i), VoxelU(i))]

Foreground == {i \in Voxels : InputAt(i) # backgroundColor}
Background == {i \in Voxels : InputAt(i) = backgroundColor}

\* Voxels i and j share a face.
FaceAdjacent(i, j) ==
  Abs(VoxelU(i) - VoxelU(j)) + Abs(VoxelV(i) - VoxelV(j))
    + Abs(VoxelW(i) - VoxelW(j)) = 1

\* The voxels of F joined to those of S by face-adjacent paths within F
\* (flood fill).
RECURSIVE Grow(_, _)
Grow(F, S) ==
  LET T == S \cup {j \in F \ S : \E k \in S : FaceAdjacent(k, j)}
  IN  IF T = S THEN S ELSE Grow(F, T)

\* The foreground component of voxel i.
Region(i) == Grow(Foreground, {i})

\* The foreground components of the input volume, each as its set of voxels.
Components == {Region(i) : i \in Foreground}

RECURSIVE SumCounts(_)
SumCounts(stats) ==
  IF stats = <<>> THEN 0
  ELSE Head(stats).pixelCount_ + SumCounts(Tail(stats))

\* The call has returned its statistics and its arguments were valid.
Completed == pc = "done" /\ Preconditions

---------------------------------------------------------------------------
(* Properties of findConnectedComponents3d (Spec) *)

\* C1: on completion two foreground voxels carry the same output label
\* exactly when a path of face-adjacent foreground voxels joins them.
C1_ComponentMaximality ==
  Completed =>
    \A i \in Foreground :
      LET joined == Region(i)
      IN  \A j \in Foreground : (OutputAt(i) = OutputAt(j)) <=> (j \in joined)

\* A completed 2x2x2 call with two components, one of them holding two
\* voxels that share no face.
C1_Witness ==
  /\ Completed
  /\ width > 1 /\ height > 1 /\ depth > 1
  /\ \E i, j \in Foreground :
       j \in Region(i) /\ i # j /\ ~FaceAdjacent(i, j) /\ OutputAt(i) = OutputAt(j)
  /\ \E i, j \in Foreground : j \notin Region(i) /\ OutputAt(i) # OutputAt(j)

\* C2: on completion every background voxel holds backgroundLabel in the
\* output and no record was created for it or counts it; a resolution step
\* on a background voxel leaves the statistics as they are.
C2_BackgroundInv ==
  Completed =>
    /\ \A i \in Background : OutputAt(i) = backgroundLabel
    /\ SumCounts(statistics) = Cardinality(Foreground)
    /\ Len(statistics) <= Cardinality(Foreground)
    /\ \A k \in 1 .. Len(statistics) :
         statistics[k].inputLabel_ # backgroundColor

C2_BackgroundStep ==
  (pc = "resolve" /\ Preconditions /\ InputAt(pos) = backgroundColor) =>
    /\ statistics' = statistics
    /\ output' = [output EXCEPT
                    ![OutputAddr(VoxelW(pos), VoxelV(pos), VoxelU(pos))] =
                      backgroundLabel]

C2_BackgroundFidelity == [](C2_BackgroundInv) /\ [][C2_BackgroundStep]_vars

\* A completed call on a volume with background and foreground voxels.
C2_Witness ==
  Completed /\ Background # {} /\ Foreground # {} /\ statistics # <<>>

\* The voxels the resolution pass has written so far.
Resolved ==
  IF pc = "done" THEN Voxels
  ELSE IF pc \in {"resolve", "failed"} /\ error \notin AllocationErrors
    THEN 0 .. pos - 1
  ELSE {}

\* The precondition of spec 4.2 on backgroundLabel, kept by the caller: it
\* is none of the labels the call hands out to the components of the volume.
BackgroundLabelReserved ==
  backgroundLabel \notin {FreshLabel(k) : k \in 0 .. Cardinality(Components) - 1}

\* The labels of the roots whose record is the k-th of the list.
LabelsOfRecord(k) ==
  {label[n] : n \in {m \in DOMAIN hasLabel :
                       hasLabel[m] /\ RecordIndex(label[m]) = k}}

\* The voxels of the output that carry label l.
Carrying(l) == {i \in Voxels : OutputAt(i) = l}

C5_Conservation ==
  Completed =>
    SumCounts(statistics) + Cardinality(Background) = width * height * depth

\* A completed call with several records and some background.
C5_Witness ==
  Completed /\ Len(statistics) > 1 /\ Background # {} /\ depth > 1

\* The first voxel, in scan order, that carries the label of record k.
FirstVoxel(k) ==
  Min({i \in Voxels : OutputAt(i) \in LabelsOfRecord(k)} \cup {width * height * depth})

\* C6: on completion of a call whose backgroundLabel is reserved, the list
\* holds one record per foreground component (none for an all-background
\* volume), in the scan order of the components' first voxels and with
\* ascending labels; a record is pushed only at the first voxel of its
\* component, behind the records already there.
C6_RecordsInv ==
  (Completed /\ BackgroundLabelReserved) =>
    /\ Len(statistics) = Cardinality(Components)
    /\ Foreground = {} => statistics = <<>>
    /\ \A k \in 1 .. Len(statistics) :
         /\ Cardinality(LabelsOfRecord(k)) = 1
         /\ FirstVoxel(k) \in Foreground
         /\ FirstVoxel(k) = Min(Region(FirstVoxel(k)))
    /\ \A k, m \in 1 .. Len(statistics) :
         k < m =>
           /\ FirstVoxel(k) < FirstVoxel(m)
           /\ \A a \in LabelsOfRecord(k), b \in LabelsOfRecord(m) : a < b

C6_RecordsStep ==
  (Preconditions /\ Len(statistics') # Len(statistics)) =>
    /\ Len(statistics') = Len(statistics) + 1
    /\ \A k \in 1 .. Len(statistics) : statistics'[k] = statistics[k]
    /\ statistics'[Len(statistics')].inputLabel_ = InputAt(pos)
    /\ pos = Min(Region(pos))

C8_LabelRange ==
  Preconditions =>
    /\ LET R == Resolved \cap Foreground
       IN  \A i \in R :
             (\A j \in R : j < i => OutputAt(j) # OutputAt(i)) =>
               LET same == {j \in R : OutputAt(j) = OutputAt(i)}
               IN  same = {i} \/ same \subseteq Region(i)
    /\ \A n, m \in DOMAIN hasLabel :
         (hasLabel[n] /\ hasLabel[m] /\ n # m) => label[n] # label[m]
    /\ pc = "done" => Cardinality(Components) <= 2^labelBits
    /\ (pc = "failed") <=> (error = "LabelRangeOverflow")
    /\ pc = "failed" => Len(statistics) < Cardinality(Components)

\* The call failed on a volume with more components than U has values.
C8_Witness ==
  /\ Preconditions
  /\ pc = "failed" /\ error = "LabelRangeOverflow"
  /\ Cardinality(Components) > 2^labelBits

\* C9: a call with a violated precondition gets no further than its entry:
\* no forest is allocated, no voxel scanned, no output written.
C9_CheckedAtEntry ==
  ~Preconditions =>
    /\ pc \in {"entry", "failed"}
    /\ parent = <<>>
    /\ pos = 0

---------------------------------------------------------------------------
(* Properties of Set<U> (SpecSet, SpecSaturated) *)

\* C7: ranks never decrease and never exceed the maximum of RANK_TYPE, and
\* a unite() throws exactly when it joins two distinct roots whose equal
\* rank is that maximum.
C7_RankStep ==
  /\ \A n \in DOMAIN rank : rank'[n] >= rank[n] /\ rank'[n] <= RANK_MAX
  /\ call'.op = "unite" =>
       LET xRoot == RootOf(parent, call'.x)
           yRoot == RootOf(parent, call'.y)
       IN  call'.threw <=>
             (xRoot # yRoot /\ rank[xRoot] = rank[yRoot] /\ rank[xRoot] = RANK_MAX)

C7_RankOverflowReported == [][C7_RankStep]_vars

\* A unite() has just thrown, the survivor's rank being at the maximum.
C7_Witness ==
  /\ pc = "set"
  /\ call.op = "unite" /\ call.threw
  /\ \E n \in DOMAIN rank : rank[n] = RANK_MAX /\ parent[n] = NULL

\* a->find() == b->find(), the two calls made one after the other.
SameSet(par, a, b) ==
  LET fa == find(par, a)
      fb == find(fa.parent, b)
  IN  fa.root = fb.root

\* C10: as long as every unite() has succeeded, a->find() == b->find()
\* exactly when a and b are related by the closure of the united pairs; a
\* successful unite(x, y) merges the sets of x and y and nothing else, and
\* a find() changes no set.
C10_Inv ==
  (pc = "set" /\ ~overflowed) =>
    \A a, b \in SetNodes : SameSet(parent, a, b) <=> (comp[a] = comp[b])

C10_Step ==
  (pc = "set" /\ ~call'.threw) =>
    \A a, b \in SetNodes :
      RootOf(parent', a) = RootOf(parent', b) <=>
        \/ RootOf(parent, a) = RootOf(parent, b)
        \/ /\ call'.op = "unite"
           /\ \E c, d \in {call'.x, call'.y} :
                /\ c # d
                /\ RootOf(parent, a) = RootOf(parent, c)
                /\ RootOf(parent, b) = RootOf(parent, d)

C10_UniteIsClosure == [](C10_Inv) /\ [][C10_Step]_vars

\* After successful calls only: two sets of two nodes have been united
\* into one, which leaves a node two links below the root, and a find() on
\* another node has returned that root.
C10_Witness ==
  /\ pc = "set" /\ ~overflowed
  /\ call.op = "find" /\ parent[call.root] = NULL /\ call.x # call.root
  /\ \E a \in SetNodes :
       /\ parent[a] # NULL /\ parent[parent[a]] # NULL
       /\ comp[a] = comp[call.x]

\* The roots of the forest.
Roots(par) == {n \in DOMAIN par : par[n] = NULL}

\* The nodes on the parent path from x up to and including its root.
RECURSIVE PathOf(_, _)
PathOf(par, x) == IF par[x] = NULL THEN {x} ELSE {x} \cup PathOf(par, par[x])

\* C11: a unite() that joins two distinct roots puts the root of lower rank
\* under the other and changes no rank, or, the ranks being equal, puts one
\* root under the other and adds exactly 1 to the survivor's rank.
C11_Step ==
  (pc = "set" /\ call'.op = "unite") =>
    LET xRoot == RootOf(parent, call'.x)
        yRoot == RootOf(parent, call'.y)
    IN  (xRoot # yRoot /\ Roots(parent') # Roots(parent)) =>
          IF rank[xRoot] # rank[yRoot]
            THEN \E hi, lo \in {xRoot, yRoot} :
                   /\ rank[lo] < rank[hi]
                   /\ parent'[lo] = hi /\ parent'[hi] = NULL
                   /\ rank' = rank
            ELSE \E top, sub \in {xRoot, yRoot} :
                   /\ top # sub
                   /\ parent'[sub] = top /\ parent'[top] = NULL
                   /\ rank' = [rank EXCEPT ![top] = rank[top] + 1]

C11_UnionByRank == [][C11_Step]_vars

\* C12: find() returns the root of its node's tree and leaves every node of
\* the walked path, the root apart, a direct child of that root.
C12_Step ==
  (pc = "set" /\ call'.op = "find") =>
    LET root == RootOf(parent, call'.x)
    IN  /\ call'.root = root
        /\ parent'[root] = NULL
        /\ Roots(parent) \cap PathOf(parent, call'.x) = {root}
        /\ \A n \in PathOf(parent, call'.x) \ {root} : parent'[n] = root

C12_PathCompression == [][C12_Step]_vars

\* A find() on a node two links below its root has just moved it under the
\* root.
C12_Witness ==
  /\ pc = "set"
  /\ call.op = "find" /\ call.x \in call.relinked
  /\ parent[call.x] = call.root /\ parent[call.root] = NULL

\* C13: a second find() on the same node returns the same root as the
\* first and changes no parent link.
C13_FindIdempotent ==
  pc = "set" =>
    \A x \in SetNodes :
      LET first == find(parent, x)
          second == find(first.parent, x)
      IN  second.root = first.root /\ second.parent = first.parent

\* A find() has just compressed a path and a second find() on the same node
\* is evaluated on the compressed forest.
C13_Witness ==
  /\ pc = "set"
  /\ call.op = "find" /\ call.relinked # {}
  /\ find(parent, call.x) = [root |-> call.root, parent |-> parent]

\* C14: unite() on two nodes of one set, the same node twice included,
\* attaches no root, leaves the set of roots and every rank as they were and
\* does not throw.
C14_Step ==
  (/\ pc = "set" /\ call'.op = "unite"
   /\ RootOf(parent, call'.x) = RootOf(parent, call'.y)) =>
    /\ ~call'.threw
    /\ rank' = rank
    /\ Roots(parent') = Roots(parent)
    /\ \A n \in SetNodes : RootOf(parent', n) = RootOf(parent, n)

C14_SameSetNoOp == [][C14_Step]_vars

\* unite() was called on two different nodes of one set of several nodes.
C14_Witness ==
  /\ pc = "set"
  /\ call.op = "unite" /\ call.x # call.y /\ ~call.threw
  /\ call.relinked = {}
  /\ RootOf(parent, call.x) = RootOf(parent, call.y)
  /\ \E n \in SetNodes : parent[n] # NULL /\ rank[RootOf(parent, n)] > 0

\* C15: find() and unite(), failing or not, leave hasLabel_ and label_ of
\* every node as they were; find() changes no rank, no parent link off the
\* walked path and no node's root.
C15_Step ==
  (pc = "set" /\ call'.op \in {"find", "unite"}) =>
    /\ hasLabel' = hasLabel
    /\ label' = label
    /\ call'.op = "find" =>
         /\ rank' = rank
         /\ call'.relinked \subseteq PathOf(parent, call'.x)
         /\ Roots(parent') = Roots(parent)
         /\ \A n \in DOMAIN parent : RootOf(parent', n) = RootOf(parent, n)

C15_LabelsAndRanksUntouched == [][C15_Step]_vars

\* A find() that moved a link, made after a unite() has thrown.
C15_Witness ==
  /\ pc = "set"
  /\ overflowed
  /\ call.op = "find" /\ call.relinked # {}

\* C16: in every state, the one left by a throwing unite() included, the
\* rank of a root is at least the rank of each of its children.
C16_RootRankDominates ==
  pc = "set" =>
    \A n \in DOMAIN parent :
      (parent[n] # NULL /\ parent[parent[n]] = NULL) =>
        rank[parent[n]] >= rank[n]

\* unite() has just thrown and left a root with a child of the same rank.
C16_Witness ==
  /\ pc = "set"
  /\ call.op = "unite" /\ call.threw
  /\ \E n \in DOMAIN parent :
       /\ parent[n] # NULL /\ parent[parent[n]] = NULL
       /\ rank[parent[n]] = rank[n] /\ rank[n] > 0

\* C17: throughout a call of findConnectedComponents3d a node with hasLabel_
\* set is a root; no node is labelled while the scan is still uniting; and a
\* labelled root keeps its label and never becomes a child.
C17_Inv ==
  /\ \A n \in DOMAIN hasLabel : hasLabel[n] => parent[n] = NULL
  /\ pc \in {"entry", "scan"} => \A n \in DOMAIN hasLabel : ~hasLabel[n]

C17_Step ==
  /\ \A n \in DOMAIN hasLabel :
       hasLabel[n] => (hasLabel'[n] /\ label'[n] = label[n] /\ parent'[n] = NULL)
  /\ (pc = "resolve" /\ pc' # "crashed") => Roots(parent') = Roots(parent)

C17_LabelledAreRoots == [](C17_Inv) /\ [][C17_Step]_vars

\* The resolution pass has labelled a root while a voxel further on is still
\* two links below that root.
C17_Witness ==
  /\ pc = "resolve" /\ Preconditions
  /\ \E n \in DOMAIN parent :
       /\ n >= pos
       /\ parent[n] # NULL /\ parent[parent[n]] # NULL
       /\ hasLabel[RootOf(parent, n)]

\* C18: a unite() that throws on rank overflow leaves every rank, the set of
\* roots and every node's root as they were, path compression apart, and its
\* two arguments in different sets.
C18_Step ==
  (pc = "set" /\ call'.op = "unite" /\ call'.threw) =>
    /\ rank' = rank
    /\ Roots(parent') = Roots(parent)
    /\ \A n \in DOMAIN parent : RootOf(parent', n) = RootOf(parent, n)
    /\ RootOf(parent', call'.x) # RootOf(parent', call'.y)

C18_FailedUniteChangesNothing == [][C18_Step]_vars

\* find() reaches a root from x within k links.
RECURSIVE Climbs(_, _, _)
Climbs(par, x, k) ==
  IF par[x] = NULL THEN TRUE
  ELSE IF k = 0 THEN FALSE
  ELSE Climbs(par, par[x], k - 1)

\* C19: as long as no unite() has thrown, the rank of every node that has a
\* parent is strictly less than its parent's rank; hence the parent links
\* hold no cycle and find() reaches a root from every node.
C19_RankIncreasesUpwards ==
  (pc = "set" /\ ~overflowed) =>
    /\ \A n \in SetNodes : parent[n] # NULL => rank[n] < rank[parent[n]]
    /\ \A n \in SetNodes : Climbs(parent, n, NNodes - 1)

\* A successful unite() has built a path of two links with ranks 0, 1, 2.
C19_Witness ==
  /\ pc = "set" /\ ~overflowed
  /\ call.op = "unite" /\ call.relinked # {}
  /\ \E n \in SetNodes :
       /\ parent[n] # NULL /\ parent[parent[n]] # NULL
       /\ rank[n] = 0 /\ rank[parent[n]] = 1 /\ rank[parent[parent[n]]] = 2

\* The nodes of the tree of root r.
Members(par, r) == {n \in DOMAIN par : RootOf(par, n) = r}

\* The largest k with 2^k <= n, for n >= 1.
RECURSIVE Log2(_)
Log2(n) == IF n < 2 THEN 0 ELSE 1 + Log2(n \div 2)

\* C20: after calls on zero-initialised nodes none of which has thrown, the
\* tree of a root of rank r holds at least 2^r nodes; so no rank exceeds the
\* logarithm of the number of nodes, and a root at the maximum rank needs
\* 2^max nodes.
C20_RankBoundsSize ==
  (pc = "set" /\ ~overflowed) =>
    \A r \in Roots(parent) :
      /\ Cardinality(Members(parent, r)) >= 2^rank[r]
      /\ rank[r] <= Log2(Cardinality(DOMAIN parent))
      /\ rank[r] = RANK_MAX => Log2(Cardinality(DOMAIN parent)) >= RANK_MAX

\* A successful unite() has left a root of rank 2 whose tree holds exactly
\* 2^2 nodes.
C20_Witness ==
  /\ pc = "set" /\ ~overflowed
  /\ call.op = "unite" /\ ~call.threw
  /\ \E r \in Roots(parent) :
       rank[r] = 2 /\ Cardinality(Members(parent, r)) = 2^2

=============================================================================
